---- MODULE Spec2Model ----
(***************************************************************************)
(* Model of the attendance-report processor (src/app.py):                  *)
(*   normalize_convenio, parse_brl_value, find_header_and_total_row,       *)
(*   parse_atendimentos_xls, load/save_convenios_mapping and the Streamlit *)
(*   script main(), one action per script run.                             *)
(*                                                                         *)
(* Text is a sequence of one-character strings.  A float is an exact       *)
(* decimal [m |-> mantissa, d |-> number of decimals] in canonical form    *)
(* (binary rounding of IEEE doubles is not modelled).                      *)
(***************************************************************************)
EXTENDS Integers, Sequences, FiniteSets, TLC

VARIABLES
    brl_x, brl_ret,                 \* parse_brl_value: argument, returned value
    norm_s, norm_ret, norm_again,   \* normalize_convenio: argument, result, result of a second application
    raw, located, parsed,           \* the grid, find_header_and_total_row's result, parse_atendimentos_xls's result
    store, session, up, view, lastRun
                                    \* the persisted JSON file, st.session_state.convenios_mapping, the
                                    \* uploaded report as parse_atendimentos_xls reads it, what the last
                                    \* run of the script rendered, which interaction started that run

brlVars == <<brl_x, brl_ret>>
normVars == <<norm_s, norm_ret, norm_again>>
parseVars == <<raw, located, parsed>>
appVars == <<store, session, up, view, lastRun>>
vars == <<brl_x, brl_ret, norm_s, norm_ret, norm_again, raw, located, parsed,
          store, session, up, view, lastRun>>

Idle == "idle"

(***************************************************************************)
(* Bounds                                                                  *)
(***************************************************************************)
MaxBrlLen == 4
MaxNormLen == 5

(***************************************************************************)
(* Text helpers (Python str semantics)                                     *)
(***************************************************************************)
\* characters str.strip(), float() and the regex class \s treat as whitespace
Whitespace == {" ", "\t", "\n"}

RECURSIVE LStrip(_)
LStrip(s) == IF s # <<>> /\ Head(s) \in Whitespace THEN LStrip(Tail(s)) ELSE s

RECURSIVE RStrip(_)
RStrip(s) ==
    IF s # <<>> /\ s[Len(s)] \in Whitespace THEN RStrip(SubSeq(s, 1, Len(s) - 1)) ELSE s

\* str.strip()
Strip(s) == RStrip(LStrip(s))

\* s.startswith(p)
StartsWith(s, p) == Len(s) >= Len(p) /\ SubSeq(s, 1, Len(p)) = p

\* str.replace(old, new) for a non-empty old: leftmost, non-overlapping occurrences
RECURSIVE Replace(_, _, _)
Replace(s, old, new) ==
    IF s = <<>> THEN <<>>
    ELSE IF StartsWith(s, old)
         THEN new \o Replace(SubSeq(s, Len(old) + 1, Len(s)), old, new)
         ELSE <<Head(s)>> \o Replace(Tail(s), old, new)

\* sub in s
Contains(s, sub) ==
    \E i \in 1..(Len(s) - Len(sub) + 1) : \A k \in 1..Len(sub) : s[i + k - 1] = sub[k]

LowerTable ==
    "A" :> "a" @@ "B" :> "b" @@ "C" :> "c" @@ "D" :> "d" @@ "E" :> "e" @@ "F" :> "f"
    @@ "G" :> "g" @@ "H" :> "h" @@ "I" :> "i" @@ "J" :> "j" @@ "K" :> "k" @@ "L" :> "l"
    @@ "M" :> "m" @@ "N" :> "n" @@ "O" :> "o" @@ "P" :> "p" @@ "Q" :> "q" @@ "R" :> "r"
    @@ "S" :> "s" @@ "T" :> "t" @@ "U" :> "u" @@ "V" :> "v" @@ "W" :> "w" @@ "X" :> "x"
    @@ "Y" :> "y" @@ "Z" :> "z"

LowerChar(c) == IF c \in DOMAIN LowerTable THEN LowerTable[c] ELSE c

\* str.lower()
Lower(s) == [i \in 1..Len(s) |-> LowerChar(s[i])]

\* length of the whitespace run at the start of s
RECURSIVE WsRun(_)
WsRun(s) == IF s # <<>> /\ Head(s) \in Whitespace THEN 1 + WsRun(Tail(s)) ELSE 0

Drop(s, n) == SubSeq(s, n + 1, Len(s))

\* the sequences over S of length at most n
RECURSIVE SeqsUpTo(_, _)
SeqsUpTo(S, n) ==
    IF n = 0 THEN {<<>>}
    ELSE LET shorter == SeqsUpTo(S, n - 1)
         IN shorter \cup {Append(t, c) : t \in {u \in shorter : Len(u) = n - 1}, c \in S}

(***************************************************************************)
(* Exact decimals                                                          *)
(***************************************************************************)
RECURSIVE Pow10(_)
Pow10(n) == IF n = 0 THEN 1 ELSE 10 * Pow10(n - 1)

RECURSIVE Canon(_, _)
Canon(m, d) ==
    IF m = 0 THEN [m |-> 0, d |-> 0]
    ELSE IF d > 0 /\ m % 10 = 0 THEN Canon(m \div 10, d - 1)
    ELSE [m |-> m, d |-> d]

Zero == [m |-> 0, d |-> 0]

Max(a, b) == IF a >= b THEN a ELSE b

\* a + b
Add(a, b) ==
    LET d == Max(a.d, b.d)
    IN Canon(a.m * Pow10(d - a.d) + b.m * Pow10(d - b.d), d)

Digit == {"0", "1", "2", "3", "4", "5", "6", "7", "8", "9"}

DigitVal(c) ==
    CASE c = "0" -> 0 [] c = "1" -> 1 [] c = "2" -> 2 [] c = "3" -> 3 [] c = "4" -> 4
      [] c = "5" -> 5 [] c = "6" -> 6 [] c = "7" -> 7 [] c = "8" -> 8 [] c = "9" -> 9

RECURSIVE DigitsVal(_)
DigitsVal(s) == IF s = <<>> THEN 0 ELSE DigitsVal(SubSeq(s, 1, Len(s) - 1)) * 10 + DigitVal(s[Len(s)])

\* float(s) of the Python runtime, for text over digits, sign, ".", whitespace and
\* characters that can start no float literal: [ok |-> parsed, v |-> value]
PyFloat(s) ==
    LET t == Strip(s)
        signed == t # <<>> /\ Head(t) \in {"-", "+"}
        body == IF signed THEN Tail(t) ELSE t
        dots == {i \in 1..Len(body) : body[i] = "."}
        digits == SelectSeq(body, LAMBDA c : c \in Digit)
        wellFormed == /\ \A i \in 1..Len(body) : body[i] \in Digit \cup {"."}
                      /\ Cardinality(dots) <= 1
                      /\ digits # <<>>
        decimals == IF dots = {} THEN 0 ELSE Len(body) - (CHOOSE i \in dots : TRUE)
        mag == DigitsVal(digits)
    IN IF wellFormed
       THEN [ok |-> TRUE, v |-> Canon(IF signed /\ Head(t) = "-" THEN 0 - mag ELSE mag, decimals)]
       ELSE [ok |-> FALSE, v |-> Zero]

(***************************************************************************)
(* Cells: None, NaN, a number, text                                        *)
(***************************************************************************)
None == [t |-> "None"]
NaN == [t |-> "nan"]
Num(m, d) == [t |-> "num", v |-> Canon(m, d)]
Str(s) == [t |-> "str", s |-> s]

\* pd.isna / pd.notna
IsNa(x) == x.t \in {"None", "nan"}

DigitChar(n) ==
    CASE n = 0 -> "0" [] n = 1 -> "1" [] n = 2 -> "2" [] n = 3 -> "3" [] n = 4 -> "4"
      [] n = 5 -> "5" [] n = 6 -> "6" [] n = 7 -> "7" [] n = 8 -> "8" [] n = 9 -> "9"

\* the decimal digits of n >= 0, at least `width` of them
RECURSIVE NatText(_, _)
NatText(n, width) ==
    IF n < 10 /\ width <= 1 THEN <<DigitChar(n)>>
    ELSE Append(NatText(n \div 10, width - 1), DigitChar(n % 10))

\* str(x) of a float: "2.0", "1.25", "-0.5"
FloatText(v) ==
    LET mag == IF v.m < 0 THEN 0 - v.m ELSE v.m
        whole == NatText(mag \div Pow10(v.d), 1)
        frac == IF v.d = 0 THEN <<"0">> ELSE NatText(mag % Pow10(v.d), v.d)
    IN (IF v.m < 0 THEN <<"-">> ELSE <<>>) \o whole \o <<".">> \o frac

\* str(x) for the cells of the model
PyStr(x) ==
    CASE x.t = "str" -> x.s
      [] x.t = "None" -> <<"N", "o", "n", "e">>
      [] x.t = "nan" -> <<"n", "a", "n">>
      [] x.t = "num" -> FloatText(x.v)

(***************************************************************************)
(* parse_brl_value                                                         *)
(***************************************************************************)
\* the thousands separator is left in the text
parse_brl_value_KeepsDots(x) ==
    IF x.t \in {"None", "nan"} THEN Zero
    ELSE IF x.t = "num" THEN x.v
    ELSE LET s0 == Strip(PyStr(x))
             s1 == Strip(Replace(s0, <<"R", "$">>, <<>>))
             f == PyFloat(Replace(s1, <<",">>, <<".">>))
         IN IF s0 = <<>> THEN Zero
            ELSE IF f.ok THEN f.v ELSE Zero

parse_brl_value(x) ==
    IF x.t \in {"None", "nan"} THEN Zero
    ELSE IF x.t = "num" THEN x.v
    ELSE LET s0 == Strip(PyStr(x))
             s1 == Strip(Replace(s0, <<"R", "$">>, <<>>))
             s2 == Replace(Replace(s1, <<".">>, <<>>), <<",">>, <<".">>)
             f == PyFloat(s2)
         IN IF s0 = <<>> THEN Zero
            ELSE IF f.ok THEN f.v ELSE Zero

(***************************************************************************)
(* normalize_convenio                                                      *)
(***************************************************************************)
\* index of the first ")" of s, 0 if none
RECURSIVE FirstClose(_)
FirstClose(s) ==
    IF s = <<>> THEN 0
    ELSE IF Head(s) = ")" THEN 1
    ELSE LET r == FirstClose(Tail(s)) IN IF r = 0 THEN 0 ELSE r + 1

\* the pattern without its trailing \s*
ParenMatchLen_NoTrailingSpace(s) ==
    LET w == WsRun(s)
        afterWs == Drop(s, w)
        close == IF afterWs # <<>> /\ Head(afterWs) = "(" THEN FirstClose(afterWs) ELSE 0
    IN IF close = 0 THEN 0 ELSE w + close

\* length of the match of \s*\([^)]*\)\s* at the start of s, 0 if it does not match
ParenMatchLen(s) ==
    LET w == WsRun(s)
        afterWs == Drop(s, w)
        close == IF afterWs # <<>> /\ Head(afterWs) = "(" THEN FirstClose(afterWs) ELSE 0
    IN IF close = 0 THEN 0 ELSE w + close + WsRun(Drop(afterWs, close))

\* re.sub(r"\s*\([^)]*\)\s*", "", s)
RECURSIVE SubParens(_)
SubParens(s) ==
    IF s = <<>> THEN <<>>
    ELSE LET n == ParenMatchLen(s)
         IN IF n > 0 THEN SubParens(Drop(s, n))
            ELSE <<Head(s)>> \o SubParens(Tail(s))

\* re.sub(r"\s+", " ", s)
RECURSIVE SubSpaces(_)
SubSpaces(s) ==
    IF s = <<>> THEN <<>>
    ELSE IF Head(s) \in Whitespace THEN <<" ">> \o SubSpaces(Drop(s, WsRun(s)))
    ELSE <<Head(s)>> \o SubSpaces(Tail(s))

normalize_convenio(x) ==
    IF x.t = "None" THEN <<>>
    ELSE SubSpaces(SubParens(Strip(PyStr(x))))

(***************************************************************************)
(* Optional values (None or a value)                                       *)
(***************************************************************************)
Absent == [some |-> FALSE]
Some(v) == [some |-> TRUE, v |-> v]

(***************************************************************************)
(* find_header_and_total_row                                               *)
(* The grid `raw` is a sequence of rows, a row a sequence of cells; row    *)
(* and column indexes are 0-based as in the source (raw.iloc[i] is         *)
(* raw[i + 1]).                                                            *)
(***************************************************************************)
Txt_atendimento == <<"a", "t", "e", "n", "d", "i", "m", "e", "n", "t", "o">>
Txt_nr_guia == <<"n", "r", ".", " ", "g", "u", "i", "a">>
Txt_no_guia == <<"n", "º", " ", "g", "u", "i", "a">>
Txt_total_rs == <<"t", "o", "t", "a", "l", " ", "r", "$">>
Txt_total == <<"t", "o", "t", "a", "l">>
Txt_sep == <<" ", "|", " ">>

iloc(grid, i) == grid[i + 1]

\* " | ".join(texts)
RECURSIVE Join(_)
Join(texts) ==
    IF texts = <<>> THEN <<>>
    ELSE IF Len(texts) = 1 THEN texts[1]
    ELSE texts[1] \o Txt_sep \o Join(Tail(texts))

\* [str(v) for v in row.values if pd.notna(v)]
RECURSIVE NotNaTexts(_)
NotNaTexts(row) ==
    IF row = <<>> THEN <<>>
    ELSE IF IsNa(Head(row)) THEN NotNaTexts(Tail(row))
    ELSE <<PyStr(Head(row))>> \o NotNaTexts(Tail(row))

\* the test of lines 59-62 on one row
IsHeaderRow(row) ==
    LET first == row[1]
        joined == Lower(Join(NotNaTexts(row)))
    IN /\ first.t = "str"
       /\ Lower(Strip(first.s)) = Txt_atendimento
       /\ (Contains(joined, Txt_nr_guia) \/ Contains(joined, Txt_no_guia))

\* the loop without its break: the last header row wins
RECURSIVE HeaderScan_NoBreak(_, _)
HeaderScan_NoBreak(grid, i) ==
    IF i >= Len(grid) THEN Absent
    ELSE LET later == HeaderScan_NoBreak(grid, i + 1)
         IN IF later.some THEN later
            ELSE IF IsHeaderRow(iloc(grid, i)) THEN Some(i)
            ELSE Absent

\* the loop of lines 57-64 from row i on: the first header row, or Absent
RECURSIVE HeaderScan(_, _)
HeaderScan(grid, i) ==
    IF i >= Len(grid) THEN Absent
    ELSE IF IsHeaderRow(iloc(grid, i)) THEN Some(i)
    ELSE HeaderScan(grid, i + 1)

\* isinstance(v, str) and "total r$" in v.lower()
IsTotalCell(v) == v.t = "str" /\ Contains(Lower(v.s), Txt_total_rs)

\* the match of total\s*r\$\s*(.*)$ (IGNORECASE) starting at the head of s:
\* group 1, or Absent.  "." matches no newline and "$" matches at the end or
\* before a final newline.
TotalMatchAt(s) ==
    LET afterTotal == Drop(s, Len(Txt_total))
        afterWs1 == Drop(afterTotal, WsRun(afterTotal))
        afterRs == Drop(afterWs1, 2)
        tail == Drop(afterRs, WsRun(afterRs))
        body == IF tail # <<>> /\ tail[Len(tail)] = "\n" THEN SubSeq(tail, 1, Len(tail) - 1) ELSE tail
    IN IF /\ Len(s) >= Len(Txt_total)
          /\ Lower(SubSeq(s, 1, Len(Txt_total))) = Txt_total
          /\ Len(afterWs1) >= 2
          /\ Lower(SubSeq(afterWs1, 1, 2)) = <<"r", "$">>
          /\ \A i \in 1..Len(body) : body[i] # "\n"
       THEN Some(body)
       ELSE Absent

\* re.search(r"total\s*r\$\s*(.*)$", s, flags=re.IGNORECASE): group 1 of the leftmost match
RECURSIVE TotalSearch(_)
TotalSearch(s) ==
    IF s = <<>> THEN Absent
    ELSE IF TotalMatchAt(s).some THEN TotalMatchAt(s)
    ELSE TotalSearch(Tail(s))

\* lines 69-75 on one row from column j on: the first total cell, or Absent
RECURSIVE TotalCell(_, _)
TotalCell(row, j) ==
    IF j > Len(row) THEN Absent
    ELSE IF IsTotalCell(row[j]) THEN Some(row[j])
    ELSE TotalCell(row, j + 1)

\* the total looked for only below the header row
RECURSIVE TotalScan_BelowHeader(_, _)
TotalScan_BelowHeader(grid, i) ==
    IF i >= Len(grid) THEN [idx |-> Absent, val |-> Absent]
    ELSE LET header == HeaderScan(grid, 0)
             cell == TotalCell(iloc(grid, i), 1)
             m == TotalSearch(cell.v.s)
         IN IF cell.some /\ (header.some => i > header.v)
            THEN [idx |-> Some(i),
                  val |-> IF m.some THEN Some(parse_brl_value(Str(m.v))) ELSE Absent]
            ELSE TotalScan_BelowHeader(grid, i + 1)

\* the loop of lines 67-77 from row i on: [idx, val] of the first total row
RECURSIVE TotalScan(_, _)
TotalScan(grid, i) ==
    IF i >= Len(grid) THEN [idx |-> Absent, val |-> Absent]
    ELSE LET cell == TotalCell(iloc(grid, i), 1)
             m == TotalSearch(cell.v.s)
         IN IF cell.some
            THEN [idx |-> Some(i),
                  val |-> IF m.some THEN Some(parse_brl_value(Str(m.v))) ELSE Absent]
            ELSE TotalScan(grid, i + 1)

Raised(e) == [raised |-> TRUE, error |-> e]

find_header_and_total_row(grid) ==
    LET header == HeaderScan(grid, 0)
        total == TotalScan(grid, 0)
    IN IF ~header.some THEN Raised("ValueError")
       ELSE [raised |-> FALSE, header_idx |-> header.v,
             total_idx |-> total.idx, total_val |-> total.val]

(***************************************************************************)
(* parse_atendimentos_xls, from the decoded grid on                        *)
(***************************************************************************)
Txt_Operadora == <<"O", "p", "e", "r", "a", "d", "o", "r", "a">>
Txt_Valor_Total == <<"V", "a", "l", "o", "r", " ", "T", "o", "t", "a", "l">>
Txt_Nr_Guia == <<"N", "r", ".", " ", "G", "u", "i", "a">>

\* col_map of line 97: the columns of the header row that are not NaN and not blank
ColMap(header_row) ==
    [j \in {k \in 1..Len(header_row) :
                ~IsNa(header_row[k]) /\ Strip(PyStr(header_row[k])) # <<>>}
        |-> Strip(PyStr(header_row[j]))]

HasColumn(col_map, name) == \E j \in DOMAIN col_map : col_map[j] = name

\* df[name] on one row of the grid
Column(col_map, row, name) == row[CHOOSE j \in DOMAIN col_map : col_map[j] = name]

\* lines 107-109 on the row at index i
Record(col_map, grid, i) ==
    LET row == iloc(grid, i)
        operadora == Strip(PyStr(Column(col_map, row, Txt_Operadora)))
    IN [idx |-> i,
        guia |-> Column(col_map, row, Txt_Nr_Guia),
        operadora |-> operadora,
        key |-> normalize_convenio(Str(operadora)),
        valor |-> parse_brl_value(Column(col_map, row, Txt_Valor_Total))]

\* the filter with "or" for "and"
IsEmptyLine_Either(rec) == IsNa(rec.guia) \/ rec.valor = Zero

\* line 112: the rows the filter removes
IsEmptyLine(rec) == IsNa(rec.guia) /\ rec.valor = Zero

\* raw.iloc[start:end] after lines 107-112, in grid order
RECURSIVE Rows(_, _, _, _)
Rows(col_map, grid, i, end) ==
    IF i >= end \/ i >= Len(grid) THEN <<>>
    ELSE LET rec == Record(col_map, grid, i)
         IN (IF IsEmptyLine(rec) THEN <<>> ELSE <<rec>>) \o Rows(col_map, grid, i + 1, end)

parse_atendimentos_xls(grid) ==
    LET loc == find_header_and_total_row(grid)
        col_map == ColMap(iloc(grid, loc.header_idx))
        start == loc.header_idx + 1
        end == IF loc.total_idx.some THEN loc.total_idx.v ELSE Len(grid)
    IN IF loc.raised THEN loc
       ELSE IF ~(/\ HasColumn(col_map, Txt_Operadora)
                 /\ HasColumn(col_map, Txt_Valor_Total)
                 /\ HasColumn(col_map, Txt_Nr_Guia))
            THEN Raised("KeyError")
       ELSE [raised |-> FALSE, df |-> Rows(col_map, grid, start, end),
             report_total |-> loc.total_val]

(***************************************************************************)
(* The insurer mapping: load_convenios_mapping, save_convenios_mapping     *)
(* A mapping is a function from keys (text) to channels (text).            *)
(***************************************************************************)
Txt_AMHPDF == <<"A", "M", "H", "P", "D", "F">>
Txt_HOSPITAL == <<"H", "O", "S", "P", "I", "T", "A", "L">>
Txt_DIRETO == <<"D", "I", "R", "E", "T", "O">>

FATURAMENTO_OPCOES == {<<>>, Txt_AMHPDF, Txt_HOSPITAL, Txt_DIRETO}

EmptyMapping == [k \in {} |-> <<>>]

\* the JSON value null (None once loaded), which is no text
JsonNull == <<"null">>

\* lines 126 and 132: {k: (v or "") for k, v in data.items()}
load_convenios_mapping(file) ==
    [k \in DOMAIN file |-> IF file[k] = JsonNull \/ file[k] = <<>> THEN <<>> ELSE file[k]]

\* line 144: what save_convenios_mapping writes
Cleaned(m) ==
    [k \in {j \in DOMAIN m : j # <<>>} |-> IF m[k] \in FATURAMENTO_OPCOES THEN m[k] ELSE <<>>]

(***************************************************************************)
(* main(): the tabs of one run of the script                               *)
(***************************************************************************)
\* lines 233-237: the dict built from the rows of the edited table, a later
\* row replacing an earlier one with the same key
RECURSIVE NewMap(_)
NewMap(rows) ==
    IF rows = <<>> THEN EmptyMapping
    ELSE LET before == NewMap(SubSeq(rows, 1, Len(rows) - 1))
             r == rows[Len(rows)]
             k == Strip(PyStr(r.chave))
             v == Strip(PyStr(r.faturamento))
         IN IF k = <<>> THEN before
            ELSE [j \in DOMAIN before \cup {k} |-> IF j = k THEN v ELSE before[j]]

\* lines 288-292: the rows of the edited table added to the mapping, in order
RECURSIVE AddNovos(_, _)
AddNovos(m, rows) ==
    IF rows = <<>> THEN m
    ELSE LET k == Strip(PyStr(Head(rows).chave))
             v == Strip(PyStr(Head(rows).faturamento))
             next == IF k # <<>> /\ k \notin DOMAIN m
                     THEN [j \in DOMAIN m \cup {k} |-> IF j = k THEN v ELSE m[j]]
                     ELSE m
         IN AddNovos(next, Tail(rows))

\* lines 267-268: the keys of the file that the mapping does not have
Novos(df, m) == {df[n].key : n \in 1..Len(df)} \ DOMAIN m

\* the sum of the function f over its finite domain
RECURSIVE SumOver(_)
SumOver(f) ==
    IF DOMAIN f = {} THEN Zero
    ELSE LET x == CHOOSE y \in DOMAIN f : TRUE
         IN Add(f[x], SumOver([y \in DOMAIN f \ {x} |-> f[y]]))

\* lines 299-302: groupby(["Nr. Guia", "ConvenioKey"])["Valor Total"].sum();
\* pandas leaves the rows whose group key is NaN out of the groups
GroupKeys(df) ==
    {<<df[n].guia, df[n].key>> : n \in {i \in 1..Len(df) : ~IsNa(df[i].guia)}}

GroupTotal(df, g) ==
    LET members == {n \in 1..Len(df) : df[n].guia = g[1] /\ df[n].key = g[2]}
    IN SumOver([n \in members |-> df[n].valor])

\* line 303: .map(mapping).fillna("")
Faturamento(m, key) == IF key \in DOMAIN m THEN m[key] ELSE <<>>

df_guia(df, m) ==
    {[guia |-> g[1], convenio |-> g[2], total |-> GroupTotal(df, g),
      faturamento |-> Faturamento(m, g[2])] : g \in GroupKeys(df)}

\* .loc[df_guia["Faturamento"] == channel, "Total da Guia"].sum()
ChannelTotal(guias, channel) ==
    SumOver([row \in {r \in guias : r.faturamento = channel} |-> row.total])

\* lines 305-311
calc_total(guias) ==
    SumOver([row \in guias |-> row.total])

resumo(guias) ==
    [AMHPDF |-> ChannelTotal(guias, Txt_AMHPDF),
     HOSPITAL |-> ChannelTotal(guias, Txt_HOSPITAL),
     DIRETO |-> ChannelTotal(guias, Txt_DIRETO),
     OUTROS |-> ChannelTotal(guias, <<>>)]

\* what the processing tab renders for the DataFrame df: the new insurers
\* found before the save button and the tables computed after it
Rendered(df, novos, m) ==
    LET guias == df_guia(df, m)
    IN [shown |-> TRUE, novos |-> novos, df_guia |-> guias,
        calc_total |-> calc_total(guias), resumo |-> resumo(guias)]

NothingRendered == [shown |-> FALSE]

(***************************************************************************)
(* Specification of parse_brl_value: the argument is drawn in Init, the    *)
(* call is the only step.                                                  *)
(***************************************************************************)
BrlAlphabet == {"1", "0", ".", ",", "R", "$", " ", "a", "-"}

Txt_1_234_56 == <<"1", ".", "2", "3", "4", ",", "5", "6">>
Txt_RS_10_00 == <<"R", "$", " ", "1", "0", ",", "0", "0">>
Txt_abc == <<"a", "b", "c">>

BrlInputs ==
    {None, NaN, Num(0, 0), Num(5, 0), Num(-125, 2)}
        \cup {Str(t) : t \in SeqsUpTo(BrlAlphabet, MaxBrlLen)}
        \cup {Str(Txt_1_234_56), Str(Txt_RS_10_00), Str(Txt_abc)}

NotCalled == [done |-> FALSE]
Returned(v) == [done |-> TRUE, v |-> v]

InitBrl ==
    /\ brl_x \in BrlInputs
    /\ brl_ret = NotCalled
    /\ norm_s = Idle /\ norm_ret = Idle /\ norm_again = Idle
    /\ raw = Idle /\ located = Idle /\ parsed = Idle
    /\ store = Idle /\ session = Idle /\ up = Idle /\ view = Idle /\ lastRun = Idle

CallParseBrl ==
    /\ ~brl_ret.done
    /\ brl_ret' = Returned(parse_brl_value(brl_x))
    /\ UNCHANGED <<brl_x, normVars, parseVars, appVars>>

NextBrl == CallParseBrl

SpecBrl == InitBrl /\ [][NextBrl]_vars

(***************************************************************************)
(* Specification of normalize_convenio: the argument is drawn in Init; the *)
(* function is applied, then applied to its own result.                    *)
(***************************************************************************)
NormAlphabet == {"A", " ", "\t", "(", ")"}

Txt_Bradesco == <<"B", "R", " ", "-", " ", "D", "(", "1", "0", "0", "1", ")">>
Txt_A_B == <<" ", " ", "A", " ", " ", " ", "B", " ", " ">>

NormInputs ==
    {None} \cup {Str(t) : t \in SeqsUpTo(NormAlphabet, MaxNormLen)}
           \cup {Str(Txt_Bradesco), Str(Txt_A_B)}

InitNorm ==
    /\ norm_s \in NormInputs
    /\ norm_ret = NotCalled
    /\ norm_again = NotCalled
    /\ brl_x = Idle /\ brl_ret = Idle
    /\ raw = Idle /\ located = Idle /\ parsed = Idle
    /\ store = Idle /\ session = Idle /\ up = Idle /\ view = Idle /\ lastRun = Idle

CallNormalize ==
    /\ ~norm_ret.done
    /\ norm_ret' = Returned(normalize_convenio(norm_s))
    /\ UNCHANGED <<norm_s, norm_again, brlVars, parseVars, appVars>>

CallNormalizeAgain ==
    /\ norm_ret.done
    /\ ~norm_again.done
    /\ norm_again' = Returned(normalize_convenio(Str(norm_ret.v)))
    /\ UNCHANGED <<norm_s, norm_ret, brlVars, parseVars, appVars>>

NextNorm == CallNormalize \/ CallNormalizeAgain

SpecNorm == InitNorm /\ [][NextNorm]_vars

(***************************************************************************)
(* Specification of the report parser: the decoded grid is drawn in Init   *)
(* from rows of the report's layout (columns Atendimento, Nr. Guia,        *)
(* Operadora, Valor Total); find_header_and_total_row and                  *)
(* parse_atendimentos_xls are each called once on it.                      *)
(***************************************************************************)
MaxRows == 4

RowHeader == <<Str(<<"A", "t", "e", "n", "d", "i", "m", "e", "n", "t", "o">>), Str(<<"N", "r", ".", " ", "G", "u", "i", "a">>), Str(<<"O", "p", "e", "r", "a", "d", "o", "r", "a">>), Str(<<"V", "a", "l", "o", "r", " ", "T", "o", "t", "a", "l">>)>>
RowHeaderNo == <<Str(<<" ", "A", "T", "E", "N", "D", "I", "M", "E", "N", "T", "O", " ">>), Str(<<"N", "º", " ", "G", "u", "i", "a">>), Str(<<"O", "p", "e", "r", "a", "d", "o", "r", "a">>), Str(<<"V", "a", "l", "o", "r", " ", "T", "o", "t", "a", "l">>)>>
RowTitle == <<Str(<<"A", "t", "e", "n", "d", "i", "m", "e", "n", "t", "o">>), NaN, NaN, NaN>>
RowTotal == <<Str(<<"T", "o", "t", "a", "l", " ", "R", "$", " ", "5", "0", "0", ",", "0", "0">>), NaN, NaN, NaN>>
RowTotalNoValue == <<NaN, NaN, Str(<<"T", "O", "T", "A", "L", " ", "R", "$", " ", "5", "\n", "x">>), NaN>>
RowGuide == <<Num(1, 0), Num(10, 0), Str(<<"A", " ", "(", "1", ")">>), Str(<<"1", ",", "5">>)>>
RowNoGuide == <<Num(2, 0), NaN, Str(<<"B">>), Num(3, 0)>>
RowGuideZero == <<Num(3, 0), Num(11, 0), Str(<<"B">>), Str(<<"a", "b", "c">>)>>
RowBlank == <<NaN, NaN, NaN, NaN>>

RowKinds == {RowHeader, RowHeaderNo, RowTitle, RowTotal, RowTotalNoValue,
             RowGuide, RowNoGuide, RowGuideZero, RowBlank}

Grids == SeqsUpTo(RowKinds, MaxRows)

InitParse ==
    /\ raw \in Grids
    /\ located = NotCalled
    /\ parsed = NotCalled
    /\ brl_x = Idle /\ brl_ret = Idle
    /\ norm_s = Idle /\ norm_ret = Idle /\ norm_again = Idle
    /\ store = Idle /\ session = Idle /\ up = Idle /\ view = Idle /\ lastRun = Idle

CallFindHeaderAndTotalRow ==
    /\ ~located.done
    /\ located' = Returned(find_header_and_total_row(raw))
    /\ UNCHANGED <<raw, parsed, brlVars, normVars, appVars>>

CallParseAtendimentos ==
    /\ ~parsed.done
    /\ parsed' = Returned(parse_atendimentos_xls(raw))
    /\ UNCHANGED <<raw, located, brlVars, normVars, appVars>>

NextParse == CallFindHeaderAndTotalRow \/ CallParseAtendimentos

SpecParse == InitParse /\ [][NextParse]_vars

(***************************************************************************)
(* C4: headerRowIndex is the smallest row index whose first cell, trimmed  *)
(* and lower-cased, is "atendimento" and whose non-null cells contain      *)
(* "nr. guia" or "nº guia"; with no such row the call raises and returns   *)
(* nothing, also when the grid has a total row.                            *)
(***************************************************************************)
RowIndexes == 0..(Len(raw) - 1)

QualifiesAsHeader(i) ==
    LET row == iloc(raw, i)
    IN /\ row[1].t = "str"
       /\ Lower(Strip(row[1].s)) = Txt_atendimento
       /\ \E j \in 1..Len(row) :
            /\ ~IsNa(row[j])
            /\ \/ Contains(Lower(PyStr(row[j])), Txt_nr_guia)
               \/ Contains(Lower(PyStr(row[j])), Txt_no_guia)

HasTotalText(i) ==
    \E j \in 1..Len(iloc(raw, i)) :
        /\ iloc(raw, i)[j].t = "str"
        /\ Contains(Lower(iloc(raw, i)[j].s), Txt_total_rs)

C4_HeaderIsFirstQualifyingRow ==
    located.done =>
        LET qualifying == {i \in RowIndexes : QualifiesAsHeader(i)}
        IN IF qualifying # {}
           THEN /\ ~located.v.raised
                /\ located.v.header_idx \in qualifying
                /\ \A i \in qualifying : located.v.header_idx <= i
           ELSE located.v = Raised("ValueError")

C4_Witness ==
    /\ located.done
    /\ located.v.raised
    /\ \E i \in RowIndexes : HasTotalText(i)
    /\ \E i \in RowIndexes : iloc(raw, i) = RowTitle

(***************************************************************************)
(* C5: totalRowIndex is the smallest row index with a text cell containing *)
(* "total r$" (case-insensitive), wherever the header is; with no such row *)
(* totalRowIndex and totalValue are both absent and the call succeeds;     *)
(* totalValue is never present without totalRowIndex.                      *)
(***************************************************************************)
C5_TotalIsFirstTotalRow ==
    located.done =>
        LET totals == {i \in RowIndexes : HasTotalText(i)}
            headers == {i \in RowIndexes : QualifiesAsHeader(i)}
        IN /\ (headers # {} /\ totals = {}) => ~located.v.raised
           /\ ~located.v.raised =>
                /\ IF totals # {}
                   THEN /\ located.v.total_idx.some
                        /\ located.v.total_idx.v \in totals
                        /\ \A i \in totals : located.v.total_idx.v <= i
                   ELSE located.v.total_idx = Absent /\ located.v.total_val = Absent
                /\ located.v.total_val.some => located.v.total_idx.some

C5_Witness ==
    /\ located.done
    /\ ~located.v.raised
    /\ located.v.total_idx.some
    /\ located.v.total_idx.v < located.v.header_idx
    /\ located.v.total_val = Some([m |-> 500, d |-> 0])

(***************************************************************************)
(* C6: the extractor's output is, in grid order, exactly the rows strictly *)
(* between the header row and the total row (or the end of the grid) that  *)
(* are not noise; a row is noise iff its guide cell is null and its parsed *)
(* amount is 0.                                                            *)
(***************************************************************************)
\* the columns of the layout that hold the guide and the amount
GuideColumn == CHOOSE j \in 1..Len(RowHeader) : RowHeader[j] = Str(Txt_Nr_Guia)
AmountColumn == CHOOSE j \in 1..Len(RowHeader) : RowHeader[j] = Str(Txt_Valor_Total)

IsNoise(i) ==
    /\ IsNa(iloc(raw, i)[GuideColumn])
    /\ parse_brl_value(iloc(raw, i)[AmountColumn]) = Zero

ExpectedRows ==
    LET loc == find_header_and_total_row(raw)
        end == IF loc.total_idx.some THEN loc.total_idx.v ELSE Len(raw)
    IN {i \in RowIndexes : loc.header_idx < i /\ i < end /\ ~IsNoise(i)}

C6_ExtractorKeepsExactlyNonNoiseRows ==
    (parsed.done /\ ~parsed.v.raised) =>
        LET df == parsed.v.df
        IN /\ {df[n].idx : n \in 1..Len(df)} = ExpectedRows
           /\ \A n \in 1..(Len(df) - 1) : df[n].idx < df[n + 1].idx
           /\ \A n \in 1..Len(df) :
                /\ df[n].guia = iloc(raw, df[n].idx)[GuideColumn]
                /\ df[n].valor = parse_brl_value(iloc(raw, df[n].idx)[AmountColumn])

C6_Witness ==
    /\ parsed.done
    /\ ~parsed.v.raised
    /\ find_header_and_total_row(raw).total_idx = Some(3)
    /\ Len(parsed.v.df) = 1
    /\ IsNa(parsed.v.df[1].guia) /\ parsed.v.df[1].valor # Zero
    /\ \E i \in RowIndexes : IsNoise(i) /\ find_header_and_total_row(raw).header_idx < i /\ i < 3

(***************************************************************************)
(* Specification of the application: one step is one run of main(),        *)
(* started by a plain rerun, a new upload, or a click on one of the two    *)
(* save buttons.                                                           *)
(***************************************************************************)
MaxRecs == 2
MaxEdit == 1

\* text order of sorted(): by code point, a prefix first
CharOrd(c) ==
    CASE c = " " -> 32 [] c = "(" -> 40 [] c = ")" -> 41 [] c = "-" -> 45
      [] c = "A" -> 65 [] c = "B" -> 66 [] c = "N" -> 78 [] c = "a" -> 97
      [] c = "e" -> 101 [] c = "n" -> 110 [] c = "o" -> 111

RECURSIVE TextLess(_, _)
TextLess(a, b) ==
    IF b = <<>> THEN FALSE
    ELSE IF a = <<>> THEN TRUE
    ELSE IF Head(a) = Head(b) THEN TextLess(Tail(a), Tail(b))
    ELSE CharOrd(Head(a)) < CharOrd(Head(b))

\* sorted(S) for a set of texts
RECURSIVE Sorted(_)
Sorted(S) ==
    IF S = {} THEN <<>>
    ELSE LET least == CHOOSE x \in S : \A y \in S \ {x} : TextLess(x, y)
         IN <<least>> \o Sorted(S \ {least})

Key_A == <<"A">>
Key_B == <<"B">>

\* rows parse_atendimentos_xls can return (columns Nr. Guia, ConvenioKey, Valor Total)
RecordKinds ==
    {[guia |-> Num(10, 0), key |-> Key_A, valor |-> Canon(15, 1)],
     [guia |-> Num(10, 0), key |-> Key_B, valor |-> Canon(3, 0)],
     [guia |-> NaN, key |-> Key_B, valor |-> Canon(3, 0)]}

NoUpload == [present |-> FALSE]
UnreadableUpload == [present |-> TRUE, raised |-> TRUE]
Upload(df) == [present |-> TRUE, raised |-> FALSE, df |-> df]

Uploads == {NoUpload, UnreadableUpload} \cup {Upload(df) : df \in SeqsUpTo(RecordKinds, MaxRecs)}

\* cells of the two data editors; None is the cell of an added row that was
\* not filled in
KeyCells == {Str(<<>>), Str(Key_A), Str(<<" ", "B">>)}
FatCells == {None, Str(<<>>), Str(Txt_DIRETO)}

EditorRows == [chave : KeyCells, faturamento : FatCells]

\* the tables the user can leave in the editor of the new insurers: one row
\* per new insurer, in sorted order, each cell as built or edited
RECURSIVE NovosTables(_)
NovosTables(novos) ==
    IF novos = <<>> THEN {<<>>}
    ELSE {<<r>> \o rest :
            r \in [chave : {Str(Head(novos))} \cup KeyCells, faturamento : FatCells \ {None}],
            rest \in NovosTables(Tail(novos))}

\* the JSON files the first run can find
StoredFiles ==
    {EmptyMapping,
     (Key_A :> Txt_HOSPITAL),
     (Key_A :> JsonNull) @@ (Key_B :> Txt_AMHPDF)}

NotLoaded == [loaded |-> FALSE]
InSession(m) == [loaded |-> TRUE, m |-> m]

\* lines 198-201: the mapping the run works with
SessionMapping == IF session.loaded THEN session.m ELSE load_convenios_mapping(store)

UploadFailed == [shown |-> FALSE, error |-> TRUE]

\* df_novos of line 272: one row per new insurer, no channel chosen
RECURSIVE DfNovos(_)
DfNovos(novos) ==
    IF novos = <<>> THEN <<>>
    ELSE <<[chave |-> Str(Head(novos)), faturamento |-> Str(<<>>)]>> \o DfNovos(Tail(novos))

\* a run that stores the new insurers whether or not the button was clicked
AfterNovos_NoButton(click, mapping, novos, edited_novos) ==
    IF novos # {}
    THEN AddNovos(mapping, IF click = "novos" THEN edited_novos ELSE DfNovos(Sorted(novos)))
    ELSE mapping

\* lines 270-294: the run's mapping after the block of the new insurers; line
\* 292 changes the dict that the session holds, and only under the button
AfterNovos(click, mapping, novos, edited_novos) ==
    IF click = "novos" /\ novos # {} THEN AddNovos(mapping, edited_novos) ELSE mapping

\* One run of main().  click: the button that started the run ("" for none);
\* edited: the table of the Convênios tab; edited_novos: the table of the new
\* insurers; file: the uploaded report.
Main(click, edited, edited_novos, file) ==
    LET mapping == SessionMapping
        new_map == NewMap(edited)
        readable == file.present /\ ~file.raised
        novos == IF readable THEN Novos(file.df, mapping) ELSE {}
        after_novos == AfterNovos(click, mapping, novos, edited_novos)
    IN /\ session' = InSession(IF click = "cadastro" THEN new_map ELSE after_novos)
       /\ store' = IF click = "cadastro" THEN Cleaned(new_map)
                   ELSE IF click = "novos" /\ novos # {} THEN Cleaned(after_novos)
                   ELSE store
       /\ up' = file
       /\ view' = IF ~file.present THEN NothingRendered
                  ELSE IF file.raised THEN UploadFailed
                  ELSE Rendered(file.df, novos, after_novos)

InitApp ==
    /\ store \in StoredFiles
    /\ session = NotLoaded
    /\ up = NoUpload
    /\ view = NothingRendered
    /\ lastRun = "none"
    /\ brl_x = Idle /\ brl_ret = Idle
    /\ norm_s = Idle /\ norm_ret = Idle /\ norm_again = Idle
    /\ raw = Idle /\ located = Idle /\ parsed = Idle

\* the script runs again with nothing clicked and the same upload
Rerun ==
    /\ Main("", <<>>, <<>>, up)
    /\ lastRun' = "rerun"
    /\ UNCHANGED <<brlVars, normVars, parseVars>>

\* the user uploads, replaces or removes the report
UploadReport ==
    /\ \E file \in Uploads : file # up /\ Main("", <<>>, <<>>, file)
    /\ lastRun' = "upload"
    /\ UNCHANGED <<brlVars, normVars, parseVars>>

\* "Salvar cadastro" with the table `edited`
SalvarCadastro ==
    /\ lastRun # "none"
    /\ \E edited \in SeqsUpTo(EditorRows, MaxEdit) : Main("cadastro", edited, <<>>, up)
    /\ lastRun' = "salvar_cadastro"
    /\ UNCHANGED <<brlVars, normVars, parseVars>>

\* "Salvar novos convênios": the button is on the page when the last run
\* found new insurers, and is reached when this run finds some
SalvarNovos ==
    /\ view.shown /\ view.novos # {}
    /\ Novos(up.df, SessionMapping) # {}
    /\ \E edited_novos \in NovosTables(Sorted(Novos(up.df, SessionMapping))) :
            Main("novos", <<>>, edited_novos, up)
    /\ lastRun' = "salvar_novos"
    /\ UNCHANGED <<brlVars, normVars, parseVars>>

Next == Rerun \/ UploadReport \/ SalvarCadastro \/ SalvarNovos

Spec == InitApp /\ [][Next]_vars

(***************************************************************************)
(* C1: the computed total equals the sum of the four channel buckets       *)
(* AMHPDF + HOSPITAL + DIRETO + OUTROS, for every mapping the session can  *)
(* hold.                                                                   *)
(***************************************************************************)
C1_TotalIsSumOfBuckets ==
    view.shown =>
        view.calc_total =
            Add(Add(view.resumo.AMHPDF, view.resumo.HOSPITAL),
                Add(view.resumo.DIRETO, view.resumo.OUTROS))

(***************************************************************************)
(* C2: the aggregate has exactly one row for every distinct (guide,        *)
(* insurer key) pair among the extracted records, null guides included,    *)
(* and the row's total is the sum of the amounts of the records with that  *)
(* pair.                                                                   *)
(***************************************************************************)
RecordPairs == {<<up.df[n].guia, up.df[n].key>> : n \in 1..Len(up.df)}

PairAmount(pair) ==
    SumOver([n \in {i \in 1..Len(up.df) : <<up.df[i].guia, up.df[i].key>> = pair}
                |-> up.df[n].valor])

C2_OneAggregateRowPerPair ==
    view.shown =>
        /\ {<<row.guia, row.convenio>> : row \in view.df_guia} = RecordPairs
        /\ Cardinality(view.df_guia) = Cardinality(RecordPairs)
        /\ \A row \in view.df_guia : row.total = PairAmount(<<row.guia, row.convenio>>)

(***************************************************************************)
(* C3: every insurer key of the records that the mapping lacks or maps to  *)
(* "" is in the set of new insurers offered for assignment, and its amount *)
(* is counted in the unassigned bucket.  Stated for the runs that start    *)
(* without a save, where the run's mapping is the session's.               *)
(***************************************************************************)
Unassigned(key) == key \notin DOMAIN session.m \/ session.m[key] = <<>>

UnassignedAmount ==
    SumOver([n \in {i \in 1..Len(up.df) : Unassigned(up.df[i].key)} |-> up.df[n].valor])

C3_UnmappedKeysSurfacedAndBucketed ==
    (view.shown /\ lastRun \in {"rerun", "upload"}) =>
        /\ \A n \in 1..Len(up.df) : Unassigned(up.df[n].key) => up.df[n].key \in view.novos
        /\ view.resumo.OUTROS = UnassignedAmount

(***************************************************************************)
(* C7: every entry of the session's mapping has a non-empty key and a      *)
(* channel among "", "AMHPDF", "HOSPITAL", "DIRETO".                       *)
(***************************************************************************)
C7_MappingEntriesWellFormed ==
    session.loaded =>
        \A k \in DOMAIN session.m : k # <<>> /\ session.m[k] \in FATURAMENTO_OPCOES

(***************************************************************************)
(* C10: a run that is started by no save button leaves the session's       *)
(* mapping, the persisted file and the records as they are, and a rerun on *)
(* the same records and mapping renders the same aggregate rows, total and *)
(* channel summary.  (The run of "Salvar cadastro" aggregates with the     *)
(* mapping it started with, so the rerun after it is one on another        *)
(* mapping.)                                                               *)
(***************************************************************************)
SameTables(v, w) ==
    /\ v.shown = w.shown
    /\ v.shown => /\ v.df_guia = w.df_guia
                  /\ v.calc_total = w.calc_total
                  /\ v.resumo = w.resumo

C10_AggregationChangesNoInput ==
    [][/\ (session.loaded /\ lastRun' \in {"rerun", "upload"}) =>
            (session' = session /\ store' = store)
       /\ (session.loaded /\ lastRun' = "rerun") => up' = up
       /\ (session.loaded /\ lastRun # "salvar_cadastro" /\ lastRun' = "rerun") =>
            SameTables(view, view')
      ]_vars

C10_Witness ==
    /\ lastRun = "rerun"
    /\ view.shown
    /\ view.novos # {}
    /\ Cardinality(view.df_guia) = 2
    /\ \E k \in DOMAIN session.m : session.m[k] # <<>>

(***************************************************************************)
(* C8: parse_brl_value returns a number for every input; None, NaN, blank  *)
(* text and text that is no number after the separators are rewritten give *)
(* 0; Brazilian-formatted text gives the number with "." as thousands and  *)
(* "," as decimal separator.                                               *)
(***************************************************************************)
IsDecimal(v) == v.m \in Int /\ v.d \in Nat /\ v = Canon(v.m, v.d)

\* number of digits of s after its first ","
DigitsAfterComma(s) ==
    LET commas == {i \in 1..Len(s) : s[i] = ","}
        first == CHOOSE i \in commas : \A j \in commas : i <= j
    IN IF commas = {} THEN 0
       ELSE Cardinality({i \in (first + 1)..Len(s) : s[i] \in Digit})

\* unsigned Brazilian number text: digits, "." and at most one ",", at least one digit
IsBrNumber(s) ==
    /\ \A i \in 1..Len(s) : s[i] \in Digit \cup {".", ","}
    /\ Cardinality({i \in 1..Len(s) : s[i] = ","}) <= 1
    /\ \E i \in 1..Len(s) : s[i] \in Digit

C8_CurrencyParserTotal ==
    brl_ret.done =>
        /\ IsDecimal(brl_ret.v)
        /\ brl_x \in {None, NaN} => brl_ret.v = Zero
        /\ brl_x.t = "num" => brl_ret.v = brl_x.v
        /\ brl_x.t = "str" =>
            /\ (\A i \in 1..Len(brl_x.s) : brl_x.s[i] \in Whitespace) => brl_ret.v = Zero
            /\ (\E i \in 1..Len(brl_x.s) : brl_x.s[i] \in {"a", "b", "c"}) => brl_ret.v = Zero
            /\ Cardinality({i \in 1..Len(brl_x.s) : brl_x.s[i] = ","}) >= 2 => brl_ret.v = Zero
            /\ IsBrNumber(brl_x.s) =>
                  brl_ret.v = Canon(DigitsVal(SelectSeq(brl_x.s, LAMBDA c : c \in Digit)),
                                    DigitsAfterComma(brl_x.s))
            /\ brl_x.s = Txt_1_234_56 => brl_ret.v = [m |-> 123456, d |-> 2]
            /\ brl_x.s = Txt_RS_10_00 => brl_ret.v = [m |-> 10, d |-> 0]

C8_Witness ==
    /\ brl_ret.done
    /\ brl_x = Str(Txt_1_234_56)
    /\ brl_ret.v = [m |-> 123456, d |-> 2]

(***************************************************************************)
(* C9: normalize_convenio returns "" for None; its result has no leading   *)
(* or trailing whitespace, no run of two whitespace characters and no "("  *)
(* with a ")" after it; normalizing the result again changes nothing.      *)
(***************************************************************************)
IsCanonicalKey(k) ==
    /\ k # <<>> => (k[1] \notin Whitespace /\ k[Len(k)] \notin Whitespace)
    /\ \A i \in 1..(Len(k) - 1) : ~(k[i] \in Whitespace /\ k[i + 1] \in Whitespace)
    /\ \A i \in 1..Len(k) : \A j \in (i + 1)..Len(k) : ~(k[i] = "(" /\ k[j] = ")")

C9_NormalizerCanonical ==
    /\ norm_ret.done =>
        /\ norm_s = None => norm_ret.v = <<>>
        /\ IsCanonicalKey(norm_ret.v)
        /\ norm_s = Str(Txt_Bradesco) =>
              norm_ret.v = <<"B", "R", " ", "-", " ", "D">>
        /\ norm_s = Str(Txt_A_B) => norm_ret.v = <<"A", " ", "B">>
    /\ norm_again.done => norm_again.v = norm_ret.v

C9_Witness ==
    /\ norm_again.done
    /\ norm_s = Str(<<"A", "\t", "(", ")", "A">>)
    /\ norm_ret.v = <<"A", "A">>

====
